---- MODULE Spec2Model ----
(***************************************************************************)
(* Server/local file-cache staleness tracking of BRK_CNC_hyperMillConfig:  *)
(* ServerFileMonitor (update notifications, approval with backup) and      *)
(* FileMapping (the persistent registry of local -> server mappings), over *)
(* an explicit file system and a millisecond clock.                        *)
(*                                                                         *)
(* A path is a sequence of characters (the drive letter and the colon are  *)
(* single characters, the rest is kept as tokens).  A file is a record     *)
(* [bytes, mtime]; a path with no file is outside DOMAIN files.  JS        *)
(* undefined/null is the empty tuple.                                      *)
(***************************************************************************)
EXTENDS Integers, Sequences, FiniteSets, TLC

VARIABLES
  clock,                \* Date.now(), in milliseconds
  files,                \* the file system: path -> [bytes, mtime]
  updateNotifications,  \* ServerFileMonitor.updateNotifications
  serverFileMap,        \* ServerFileMonitor.serverFileMap
  versionFile,          \* contents of metadata/file-versions.json
  mappings,             \* FileMapping.mappings
  mapFile,              \* contents of metadata/file-mapping.json
  metadataDirExists,    \* whether the metadata directory has been created
  scratch,              \* extraction directories: path -> (entry -> content)
  calls,                \* the parseSettings invocations and where each stands
  ret                   \* the last call and what it returned

vars == <<clock, files, updateNotifications, serverFileMap, versionFile,
          mappings, mapFile, metadataDirExists, scratch, calls, ret>>

monitorVars == <<updateNotifications, serverFileMap, versionFile>>
registryVars == <<mappings, mapFile, metadataDirExists>>
parserVars == <<scratch, calls>>

-----------------------------------------------------------------------------
(* Bounds of the model *)

MaxClock == 1
MaxNotifications == 2
MaxChecks == 3
MaxSyncs == 1
MaxHistorySyncs == 12
MaxCalls == 2
MaxPathLen == 4
MaxTemplateLen == 6
MaxEntries == 2
MaxSettings == 2

(* Program constants *)

SyncHistoryLimit == 10
MsPerDay == 86400000

-----------------------------------------------------------------------------
(* Values *)

Undefined == <<>>

FileBytes == {<<1>>, <<2, 2>>}

UpperLetters ==
  {"A", "B", "C", "D", "E", "F", "G", "H", "I", "J", "K", "L", "M",
   "N", "O", "P", "Q", "R", "S", "T", "U", "V", "W", "X", "Y", "Z"}

ToUpperCase(c) ==
  CASE c = "a" -> "A" [] c = "b" -> "B" [] c = "c" -> "C" [] c = "d" -> "D"
    [] c = "e" -> "E" [] c = "f" -> "F" [] c = "g" -> "G" [] c = "h" -> "H"
    [] c = "i" -> "I" [] c = "j" -> "J" [] c = "k" -> "K" [] c = "l" -> "L"
    [] c = "m" -> "M" [] c = "n" -> "N" [] c = "o" -> "O" [] c = "p" -> "P"
    [] c = "q" -> "Q" [] c = "r" -> "R" [] c = "s" -> "S" [] c = "t" -> "T"
    [] c = "u" -> "U" [] c = "v" -> "V" [] c = "w" -> "W" [] c = "x" -> "X"
    [] c = "y" -> "Y" [] c = "z" -> "Z" [] OTHER -> c

\* new Date(ms).toISOString() and new Date(iso).getTime()
ToISOString(ms) == <<"ISO", ms>>
DateGetTime(iso) == iso[2]

\* toISOString().replace(/[:.]/g, '-'), as one path token
FileStamp(ms) == ToString(ms)

Abs(n) == IF n < 0 THEN -n ELSE n

\* Math.round(Math.abs(diff) / (1000 * 60 * 60 * 24))
RoundDays(ms) == (2 * ms + MsPerDay) \div (2 * MsPerDay)

\* fs.existsSync, fs.statSync
existsSync(fs, p) == p \in DOMAIN fs
statSize(fs, p) == Len(fs[p].bytes)
statMtime(fs, p) == fs[p].mtime

\* f with key k bound to v (added when absent)
Put(f, k, v) == [x \in DOMAIN f \cup {k} |-> IF x = k THEN v ELSE f[x]]
\* f without key k
Drop(f, k) == [x \in DOMAIN f \ {k} |-> f[x]]

(* fs.copyFileSync(src, dst): every outcome the call can have.  It throws  *)
(* ENOENT when src is missing.  Otherwise it may succeed (the destination  *)
(* gets the source's bytes; its mtime is the time of the copy, or the      *)
(* source's mtime where the platform copy preserves it), fail before the   *)
(* destination is opened (destination untouched), or fail after it was     *)
(* opened for writing, in which case Node removes the destination.         *)
copyFileSync(fs, src, dst, now) ==
  IF ~existsSync(fs, src)
  THEN {[ok |-> FALSE, fs |-> fs]}
  ELSE {[ok |-> TRUE,
         fs |-> Put(fs, dst, [bytes |-> fs[src].bytes, mtime |-> m])]
          : m \in {now, fs[src].mtime}}
       \cup {[ok |-> FALSE, fs |-> fs]}
       \cup {[ok |-> FALSE, fs |-> Drop(fs, dst)]}

(* try { fs.writeFileSync(file, JSON.stringify(table)) } catch { log }: the *)
(* file holds the table, unless its directory is missing: then the write   *)
(* throws ENOENT, the error is logged and the file is as before.           *)
writeTable(old, table) == IF metadataDirExists THEN table ELSE old

-----------------------------------------------------------------------------
(* ServerFileMonitor *)

MonitorIsServerPath(filePath) ==
  IF Len(filePath) >= 2 /\ filePath[1] = "\\" /\ filePath[2] = "\\"
  THEN TRUE
  ELSE IF Len(filePath) >= 2 /\ ToUpperCase(filePath[1]) \in UpperLetters
          /\ filePath[2] = ":"
       THEN ToUpperCase(filePath[1]) \notin {"C", "D", "E", "F"}
       ELSE FALSE

\* path.join(localCacheDir, `${basename}_${timestamp}${ext}`), filename x.cfg
CachePath(now) == <<"D", ":", "\\", "x", "_", FileStamp(now), ".cfg">>

\* the server file, and a local cached copy of it made by an earlier run
ServerFile == <<"P", ":", "\\", "x.cfg">>
LocalFile == CachePath(-1)
OtherLocalFile == <<"C", ":", "\\", "y.cfg">>

\* paths a caller passes as serverPath / localPath
ArgPaths == {ServerFile, LocalFile}
\* localPath keys a caller passes to the registry
KeyPaths == {LocalFile, OtherLocalFile}

\* `${notification.localPath}.backup.${timestamp}`
BackupPath(localPath, now) == localPath \o <<".backup.", FileStamp(now)>>

\* the last call: its name and arguments, and the result object's success,
\* hasUpdate, status and (as a kind) error
Ret(op, a1, a2, success, hasUpdate, status) ==
  [op |-> op, a1 |-> a1, a2 |-> a2, success |-> success,
   hasUpdate |-> hasUpdate, status |-> status, error |-> ""]

RetError(op, a1, a2, error) ==
  [op |-> op, a1 |-> a1, a2 |-> a2, success |-> FALSE,
   hasUpdate |-> FALSE, status |-> "", error |-> error]

CopyFromServerToLocal(serverPath) ==
  LET localPath == CachePath(clock)
      failed == RetError("copyFromServerToLocal", serverPath, Undefined,
                         "Failed to cache server file")
  IN IF ~MonitorIsServerPath(serverPath)
     THEN /\ ret' = RetError("copyFromServerToLocal", serverPath, Undefined,
                             "Not a server path")
          /\ UNCHANGED <<parserVars, clock, files, monitorVars, registryVars>>
     ELSE IF ~existsSync(files, serverPath)
     THEN /\ ret' = RetError("copyFromServerToLocal", serverPath, Undefined,
                             "Server file not found")
          /\ UNCHANGED <<parserVars, clock, files, monitorVars, registryVars>>
     ELSE \E copy \in copyFileSync(files, serverPath, localPath, clock) :
            /\ files' = copy.fs
            /\ IF ~copy.ok
               THEN /\ ret' = failed
                    /\ UNCHANGED <<serverFileMap, versionFile>>
               ELSE /\ serverFileMap' =
                         Put(serverFileMap, localPath,
                             [filename |-> "x.cfg",
                              originalServer |-> serverPath,
                              cachedAt |-> ToISOString(clock),
                              size |-> statSize(copy.fs, localPath),
                              serverModified |->
                                ToISOString(statMtime(copy.fs, serverPath)),
                              cached |-> TRUE,
                              approved |-> TRUE,
                              lastSyncedAt |-> Undefined,
                              lastBackup |-> Undefined])
                    /\ versionFile' = writeTable(versionFile, serverFileMap')
                    /\ ret' = Ret("copyFromServerToLocal", serverPath,
                                  localPath, TRUE, FALSE, "")
            /\ UNCHANGED <<parserVars, clock, updateNotifications, registryVars>>

\* checkForUpdates reporting an update also when the mtimes are equal
checkForUpdates_NotOlder(fs, serverPath, localPath) ==
  IF ~existsSync(fs, serverPath) \/ ~existsSync(fs, localPath)
  THEN [hasUpdate |-> FALSE, error |-> TRUE, serverModified |-> Undefined,
        localModified |-> Undefined, diffDays |-> 0, sizeChanged |-> FALSE]
  ELSE LET diffTime == statMtime(fs, serverPath) - statMtime(fs, localPath)
       IN [hasUpdate |-> diffTime >= 0, error |-> FALSE,
           serverModified |-> ToISOString(statMtime(fs, serverPath)),
           localModified |-> ToISOString(statMtime(fs, localPath)),
           diffDays |-> RoundDays(Abs(diffTime)),
           sizeChanged |-> statSize(fs, serverPath) # statSize(fs, localPath)]

\* the value checkForUpdates(serverPath, localPath) returns
checkForUpdates(fs, serverPath, localPath) ==
  IF ~existsSync(fs, serverPath) \/ ~existsSync(fs, localPath)
  THEN [hasUpdate |-> FALSE, error |-> TRUE, serverModified |-> Undefined,
        localModified |-> Undefined, diffDays |-> 0, sizeChanged |-> FALSE]
  ELSE LET diffTime == statMtime(fs, serverPath) - statMtime(fs, localPath)
       IN [hasUpdate |-> diffTime > 0, error |-> FALSE,
           serverModified |-> ToISOString(statMtime(fs, serverPath)),
           localModified |-> ToISOString(statMtime(fs, localPath)),
           diffDays |-> RoundDays(Abs(diffTime)),
           sizeChanged |-> statSize(fs, serverPath) # statSize(fs, localPath)]

CheckForUpdates(serverPath, localPath) ==
  /\ ret' = Ret("checkForUpdates", serverPath, localPath,
                ~checkForUpdates(files, serverPath, localPath).error,
                checkForUpdates(files, serverPath, localPath).hasUpdate, "")
  /\ UNCHANGED <<parserVars, clock, files, monitorVars, registryVars>>

NotificationId(now) == <<"update-", now>>

CreateUpdateNotification(serverPath, localPath) ==
  LET updateInfo == checkForUpdates(files, serverPath, localPath)
      notification ==
        [id |-> NotificationId(clock),
         createdAt |-> ToISOString(clock),
         serverPath |-> serverPath,
         localPath |-> localPath,
         serverModified |-> updateInfo.serverModified,
         localModified |-> updateInfo.localModified,
         diffDays |-> updateInfo.diffDays,
         sizeChanged |-> updateInfo.sizeChanged,
         approved |-> FALSE,
         synced |-> FALSE,
         syncedAt |-> Undefined,
         backupPath |-> Undefined,
         rejectedAt |-> Undefined]
  IN /\ Len(updateNotifications) < MaxNotifications
     /\ IF ~updateInfo.hasUpdate
        THEN /\ ret' = RetError("createUpdateNotification", serverPath,
                                localPath, "Server file is not newer")
             /\ UNCHANGED updateNotifications
        ELSE /\ updateNotifications' = Append(updateNotifications, notification)
             /\ ret' = Ret("createUpdateNotification", serverPath, localPath,
                           TRUE, TRUE, "")
     /\ UNCHANGED <<parserVars, clock, files, serverFileMap, versionFile, registryVars>>

\* updateNotifications.find(n => n.id === notificationId): its index, 0 if none
getNotification(notificationId) ==
  LET hits == {i \in 1..Len(updateNotifications) :
                 updateNotifications[i].id = notificationId}
  IN IF hits = {} THEN 0 ELSE CHOOSE i \in hits : \A j \in hits : i <= j

\* updateNotifications.filter(n => !n.approved && !n.synced)
getPendingUpdates ==
  LET pending(n) == ~n.approved /\ ~n.synced
  IN SelectSeq(updateNotifications, pending)

\* approveCopies with the overwrite made before the backup
approveCopies_OverwriteFirst(fs, serverPath, localPath, backupPath, now) ==
  UNION {IF ~copy.ok
         THEN {copy}
         ELSE copyFileSync(copy.fs, localPath, backupPath, now)
           : copy \in copyFileSync(fs, serverPath, localPath, now)}

(* Lines 250-256 of approveUpdate: the backup copy, then the overwrite.  A *)
(* throw of either copy ends the sequence; ok tells whether both were made. *)
approveCopies(fs, serverPath, localPath, backupPath, now) ==
  UNION {IF ~backup.ok
         THEN {backup}
         ELSE copyFileSync(backup.fs, serverPath, localPath, now)
           : backup \in copyFileSync(fs, localPath, backupPath, now)}

ApproveUpdate(notificationId) ==
  LET i == getNotification(notificationId)
      notification == updateNotifications[i]
      backupPath == BackupPath(notification.localPath, clock)
  IN IF i = 0
     THEN /\ ret' = RetError("approveUpdate", notificationId, Undefined,
                             "Notification not found")
          /\ UNCHANGED <<parserVars, clock, files, monitorVars, registryVars>>
     ELSE IF ~existsSync(files, notification.serverPath)
     THEN /\ ret' = RetError("approveUpdate", notificationId, Undefined,
                             "Server file no longer exists")
          /\ UNCHANGED <<parserVars, clock, files, monitorVars, registryVars>>
     ELSE \E copies \in approveCopies(files, notification.serverPath,
                                      notification.localPath, backupPath, clock) :
            /\ files' = copies.fs
            /\ IF ~copies.ok
               THEN /\ ret' = RetError("approveUpdate", notificationId,
                                       Undefined, "Failed to sync update")
                    /\ UNCHANGED <<monitorVars>>
               ELSE /\ updateNotifications' =
                         [updateNotifications EXCEPT
                            ![i].approved = TRUE,
                            ![i].synced = TRUE,
                            ![i].syncedAt = ToISOString(clock),
                            ![i].backupPath = backupPath]
                    /\ IF notification.localPath \in DOMAIN serverFileMap
                       THEN /\ serverFileMap' =
                                 [serverFileMap EXCEPT
                                    ![notification.localPath].lastSyncedAt =
                                       ToISOString(clock),
                                    ![notification.localPath].lastBackup =
                                       backupPath]
                            /\ versionFile' =
                                 writeTable(versionFile, serverFileMap')
                       ELSE UNCHANGED <<serverFileMap, versionFile>>
                    /\ ret' = Ret("approveUpdate", notificationId, Undefined,
                                  TRUE, FALSE, "")
            /\ UNCHANGED <<parserVars, clock, registryVars>>

RejectUpdate(notificationId) ==
  LET i == getNotification(notificationId)
  IN IF i = 0
     THEN /\ ret' = RetError("rejectUpdate", notificationId, Undefined,
                             "Notification not found")
          /\ UNCHANGED <<parserVars, clock, files, monitorVars, registryVars>>
     ELSE /\ updateNotifications' =
               [updateNotifications EXCEPT
                  ![i].approved = FALSE,
                  ![i].synced = FALSE,
                  ![i].rejectedAt = ToISOString(clock)]
          /\ ret' = Ret("rejectUpdate", notificationId, Undefined, TRUE,
                        FALSE, "")
          /\ UNCHANGED <<parserVars, clock, files, serverFileMap, versionFile, registryVars>>

-----------------------------------------------------------------------------
(* FileMapping *)

\* isServerPath with D missing from localDrives
RegistryIsServerPath_WithoutD(filePath) ==
  IF Len(filePath) >= 2 /\ filePath[1] = "\\" /\ filePath[2] = "\\"
  THEN TRUE
  ELSE IF Len(filePath) >= 2 /\ ToUpperCase(filePath[1]) \in UpperLetters
          /\ filePath[2] = ":"
       THEN ToUpperCase(filePath[1]) \notin {"C", "E", "F"}
       ELSE FALSE

RegistryIsServerPath(filePath) ==
  IF Len(filePath) >= 2 /\ filePath[1] = "\\" /\ filePath[2] = "\\"
  THEN TRUE
  ELSE IF Len(filePath) >= 2 /\ ToUpperCase(filePath[1]) \in UpperLetters
          /\ filePath[2] = ":"
       THEN ToUpperCase(filePath[1]) \notin {"C", "D", "E", "F"}
       ELSE FALSE

RECURSIVE SumOver(_, _)
SumOver(f, keys) ==
  IF keys = {} THEN 0
  ELSE LET k == CHOOSE x \in keys : TRUE IN f[k] + SumOver(f, keys \ {k})

\* the checks and syncs counted in the table (what the bounds cap)
TotalChecks == SumOver([k \in DOMAIN mappings |-> mappings[k].checkCount],
                       DOMAIN mappings)
TotalSyncs == SumOver([k \in DOMAIN mappings |-> mappings[k].syncCount],
                      DOMAIN mappings)

\* saveMappings writing the table as it was before the call's change
saveMappings_BeforeChange(table) == mapFile' = writeTable(mapFile, mappings)

\* saveMappings(): mapFile' after the write-through of table
saveMappings(table) == mapFile' = writeTable(mapFile, table)

\* the entry addMapping stores (lines 102-115)
newMapping(serverPath, fileType, serverMtime, serverSize, now) ==
  [serverPath |-> serverPath,
   fileType |-> fileType,
   status |-> "unmapped",
   createdAt |-> ToISOString(now),
   lastChecked |-> Undefined,
   lastServerModified |-> ToISOString(serverMtime),
   lastServerSize |-> serverSize,
   lastLocalModified |-> Undefined,
   lastLocalSize |-> Undefined,
   syncHistory |-> <<>>,
   checkCount |-> 0,
   syncCount |-> 0,
   serverUpdateDetected |-> Undefined,
   lastSyncedAt |-> Undefined]

AddMapping(serverPath, localPath, fileType) ==
  IF ~RegistryIsServerPath(serverPath)
  THEN /\ ret' = RetError("addMapping", serverPath, localPath,
                          "Not a server path")
       /\ UNCHANGED <<parserVars, clock, files, monitorVars, registryVars>>
  ELSE IF ~existsSync(files, serverPath)
  THEN /\ ret' = RetError("addMapping", serverPath, localPath,
                          "Server file not found")
       /\ UNCHANGED <<parserVars, clock, files, monitorVars, registryVars>>
  ELSE /\ mappings' =
            Put(mappings, localPath,
                newMapping(serverPath, fileType, statMtime(files, serverPath),
                           statSize(files, serverPath), clock))
       /\ saveMappings(mappings')
       /\ ret' = Ret("addMapping", serverPath, localPath, TRUE, FALSE,
                     "unmapped")
       /\ UNCHANGED <<parserVars, clock, files, monitorVars, metadataDirExists>>

\* currentServerModified > lastServerModified (lines 157-160)
hasServerUpdate(mapping, currentServerModified) ==
  currentServerModified > DateGetTime(mapping.lastServerModified)

\* checkedMapping that also takes the server's mtime as the new snapshot
checkedMapping_Resnapshots(mapping, currentServerModified, now) ==
  LET checked == [mapping EXCEPT
                    !.lastChecked = ToISOString(now),
                    !.checkCount = mapping.checkCount + 1,
                    !.lastServerModified = ToISOString(currentServerModified)]
  IN IF currentServerModified > DateGetTime(mapping.lastServerModified)
     THEN [checked EXCEPT !.status = "outdated",
                          !.serverUpdateDetected = ToISOString(now)]
     ELSE [checked EXCEPT !.status = "current"]

\* the entry after the check of lines 162-171
checkedMapping(mapping, currentServerModified, now) ==
  LET checked == [mapping EXCEPT
                    !.lastChecked = ToISOString(now),
                    !.checkCount = mapping.checkCount + 1]
  IN IF hasServerUpdate(mapping, currentServerModified)
     THEN [checked EXCEPT !.status = "outdated",
                          !.serverUpdateDetected = ToISOString(now)]
     ELSE [checked EXCEPT !.status = "current"]

CheckForServerUpdate(localPath) ==
  IF localPath \notin DOMAIN mappings
  THEN /\ ret' = RetError("checkForServerUpdate", localPath, Undefined,
                          "No mapping found")
       /\ UNCHANGED <<parserVars, clock, files, monitorVars, registryVars>>
  ELSE LET mapping == mappings[localPath]
       IN IF ~existsSync(files, mapping.serverPath)
          THEN /\ ret' = [Ret("checkForServerUpdate", localPath, Undefined,
                              TRUE, FALSE, "server-file-missing")
                          EXCEPT !.error = "Server file missing"]
               /\ UNCHANGED <<parserVars, clock, files, monitorVars, registryVars>>
          ELSE LET currentServerModified == statMtime(files, mapping.serverPath)
                   updated == checkedMapping(mapping, currentServerModified,
                                             clock)
               IN /\ TotalChecks < MaxChecks
                  /\ mappings' = [mappings EXCEPT ![localPath] = updated]
                  /\ saveMappings(mappings')
                  /\ ret' = Ret("checkForServerUpdate", localPath, Undefined,
                                TRUE,
                                hasServerUpdate(mapping, currentServerModified),
                                updated.status)
                  /\ UNCHANGED <<parserVars, clock, files, monitorVars, metadataDirExists>>

\* slice(0, n) in place of slice(-n): keeps the oldest entries
SliceLast_KeepsOldest(seq, n) ==
  IF Len(seq) > n THEN SubSeq(seq, 1, n) ELSE seq

\* syncHistory.slice(-n)
SliceLast(seq, n) ==
  IF Len(seq) > n THEN SubSeq(seq, Len(seq) - n + 1, Len(seq)) ELSE seq

\* syncedMapping that keeps the old snapshot
syncedMapping_KeepsSnapshot(mapping, serverMtime, serverSize, now) ==
  LET pushed == Append(mapping.syncHistory,
                       [syncedAt |-> ToISOString(now),
                        serverModified |-> ToISOString(serverMtime),
                        serverSize |-> serverSize])
  IN [mapping EXCEPT
        !.status = "synced",
        !.lastSyncedAt = ToISOString(now),
        !.syncCount = mapping.syncCount + 1,
        !.syncHistory = IF Len(pushed) > SyncHistoryLimit
                        THEN SliceLast(pushed, SyncHistoryLimit)
                        ELSE pushed]

\* the entry after the sync of lines 221-238
syncedMapping(mapping, serverMtime, serverSize, now) ==
  LET pushed == Append(mapping.syncHistory,
                       [syncedAt |-> ToISOString(now),
                        serverModified |-> ToISOString(serverMtime),
                        serverSize |-> serverSize])
  IN [mapping EXCEPT
        !.status = "synced",
        !.lastServerModified = ToISOString(serverMtime),
        !.lastServerSize = serverSize,
        !.lastSyncedAt = ToISOString(now),
        !.syncCount = mapping.syncCount + 1,
        !.syncHistory = IF Len(pushed) > SyncHistoryLimit
                        THEN SliceLast(pushed, SyncHistoryLimit)
                        ELSE pushed]

\* markAsSynced that marks the mapping before it looks for the server file
markAsSynced_MarksFirst(localPath, maxSyncs) ==
  IF localPath \notin DOMAIN mappings
  THEN /\ ret' = RetError("markAsSynced", localPath, Undefined,
                          "No mapping found")
       /\ UNCHANGED <<parserVars, clock, files, monitorVars, registryVars>>
  ELSE LET mapping == mappings[localPath]
       IN IF ~existsSync(files, mapping.serverPath)
          THEN /\ mappings' = [mappings EXCEPT ![localPath].status = "synced"]
               /\ saveMappings(mappings')
               /\ ret' = RetError("markAsSynced", localPath, Undefined,
                                  "Server file missing")
               /\ UNCHANGED <<parserVars, clock, files, monitorVars, metadataDirExists>>
          ELSE /\ TotalSyncs < maxSyncs
               /\ mappings' =
                    [mappings EXCEPT ![localPath] =
                       syncedMapping(mapping,
                                     statMtime(files, mapping.serverPath),
                                     statSize(files, mapping.serverPath),
                                     clock)]
               /\ saveMappings(mappings')
               /\ ret' = Ret("markAsSynced", localPath, Undefined, TRUE,
                             FALSE, "synced")
               /\ UNCHANGED <<parserVars, clock, files, monitorVars, metadataDirExists>>

(* markAsSynced(localPath); maxSyncs caps the syncs counted in the table.  *)
markAsSynced(localPath, maxSyncs) ==
  IF localPath \notin DOMAIN mappings
  THEN /\ ret' = RetError("markAsSynced", localPath, Undefined,
                          "No mapping found")
       /\ UNCHANGED <<parserVars, clock, files, monitorVars, registryVars>>
  ELSE LET mapping == mappings[localPath]
       IN IF ~existsSync(files, mapping.serverPath)
          THEN /\ ret' = RetError("markAsSynced", localPath, Undefined,
                                  "Server file missing")
               /\ UNCHANGED <<parserVars, clock, files, monitorVars, registryVars>>
          ELSE /\ TotalSyncs < maxSyncs
               /\ mappings' =
                    [mappings EXCEPT ![localPath] =
                       syncedMapping(mapping,
                                     statMtime(files, mapping.serverPath),
                                     statSize(files, mapping.serverPath),
                                     clock)]
               /\ saveMappings(mappings')
               /\ ret' = Ret("markAsSynced", localPath, Undefined, TRUE,
                             FALSE, "synced")
               /\ UNCHANGED <<parserVars, clock, files, monitorVars, metadataDirExists>>

MarkAsSynced(localPath) == markAsSynced(localPath, MaxSyncs)

\* the localPath keys getMappingsByStatus(status) returns
getMappingsByStatus(status) ==
  {localPath \in DOMAIN mappings : mappings[localPath].status = status}

RemoveMapping(localPath) ==
  IF localPath \in DOMAIN mappings
  THEN /\ mappings' = Drop(mappings, localPath)
       /\ saveMappings(mappings')
       /\ ret' = Ret("removeMapping", localPath, Undefined, TRUE, FALSE, "")
       /\ UNCHANGED <<parserVars, clock, files, monitorVars, metadataDirExists>>
  ELSE /\ ret' = RetError("removeMapping", localPath, Undefined,
                          "Mapping not found")
       /\ UNCHANGED <<parserVars, clock, files, monitorVars, registryVars>>

(* new FileMapping(): the registry is re-created (a restart of the process) *)
(* and loadMappings reads the table back from the mapping file.            *)
LoadMappings ==
  /\ mappings' = mapFile
  /\ ret' = Ret("loadMappings", Undefined, Undefined, TRUE, FALSE, "")
  /\ UNCHANGED <<parserVars, clock, files, monitorVars, mapFile, metadataDirExists>>

-----------------------------------------------------------------------------
(* SettingsParser.parseSettings: an async function.  An invocation runs    *)
(* without interruption from its call to its first await (the extraction), *)
(* from there to its second await (the XML parse), and from there to its   *)
(* return; other invocations run in between.                               *)

\* an archive file is <<directory, name>>; what each holds on disk: its
\* leading bytes, whether extracting it fails, and the entries it unpacks to
ArchiveStore ==
  (<<"U", "good.omSettings">> :>
     [header |-> <<80, 75, 3, 4>>, extractFails |-> FALSE,
      entries |-> ("XSREGISTER.XML" :> "xml" @@ "tools.db" :> "data")])
  @@ (<<"V", "good.omSettings">> :>
     [header |-> <<80, 75, 3, 4>>, extractFails |-> FALSE,
      entries |-> ("XSREGISTER.XML" :> "xml")])
  @@ (<<"U", "truncated.omSettings">> :>
     [header |-> <<80, 75, 3, 4>>, extractFails |-> TRUE,
      entries |-> <<>>])
  @@ (<<"U", "nomanifest.omSettings">> :>
     [header |-> <<80, 75, 3, 4>>, extractFails |-> FALSE,
      entries |-> ("readme.txt" :> "data")])
  @@ (<<"U", "badxml.omSettings">> :>
     [header |-> <<80, 75, 3, 4>>, extractFails |-> FALSE,
      entries |-> ("XSREGISTER.XML" :> "malformed")])
  @@ (<<"U", "text.omSettings">> :>
     [header |-> <<0, 0, 0, 0>>, extractFails |-> FALSE, entries |-> <<>>])
  @@ (<<"U", "half.omSettings">> :>
     [header |-> <<80, 0, 0, 0>>, extractFails |-> FALSE, entries |-> <<>>])

\* the paths callers pass: the archives above and one that does not exist
SettingsPaths == DOMAIN ArchiveStore \cup {<<"U", "none.omSettings">>}

CallIds == 1..MaxCalls

Idle ==
  [pc |-> "idle", path |-> Undefined, tmpDir |-> Undefined, xml |-> "",
   success |-> FALSE, error |-> ""]

\* path.join(path.dirname(omSettingsPath), `.tmp_${Date.now()}`)
TmpDir(omSettingsPath, now) == <<omSettingsPath[1], ".tmp_", ToString(now)>>

\* fs.mkdirSync(dir, { recursive: true }): no error when dir exists
mkdirSync(dirs, dir) ==
  IF dir \in DOMAIN dirs THEN dirs ELSE Put(dirs, dir, <<>>)

\* if (fs.existsSync(dir)) fs.rmSync(dir, { recursive: true, force: true })
rmSync(dirs, dir) == IF dir \in DOMAIN dirs THEN Drop(dirs, dir) ELSE dirs

\* extract(zip, { dir }): the entries are written into dir (made if missing)
extractInto(dirs, dir, entries) ==
  LET before == mkdirSync(dirs, dir)[dir]
  IN Put(dirs, dir,
         [n \in DOMAIN before \cup DOMAIN entries |->
            IF n \in DOMAIN entries THEN entries[n] ELSE before[n]])

\* the result object of invocation i, as the last call
Returned(i, c) ==
  [Ret("parseSettings", i, c.tmpDir, c.success, FALSE, "")
     EXCEPT !.error = c.error]

Failed(c, error) ==
  [c EXCEPT !.pc = "returned", !.success = FALSE, !.error = error]

\* lines 22-40: the call, up to await extract(...)
ParseSettings(i, omSettingsPath) ==
  /\ calls[i].pc = "idle"
  /\ LET c == [calls[i] EXCEPT !.path = omSettingsPath]
     IN IF omSettingsPath \notin DOMAIN ArchiveStore
        THEN /\ calls' = [calls EXCEPT ![i] =
                            Failed(c, "Settings file not found")]
             /\ ret' = Returned(i, calls'[i])
             /\ UNCHANGED scratch
        ELSE LET header == ArchiveStore[omSettingsPath].header
                 tmpDir == TmpDir(omSettingsPath, clock)
             IN IF header[1] # 80 \/ header[2] # 75
                THEN /\ calls' = [calls EXCEPT ![i] =
                                    Failed(c, "File is not a valid ZIP archive")]
                     /\ ret' = Returned(i, calls'[i])
                     /\ UNCHANGED scratch
                ELSE /\ scratch' = mkdirSync(scratch, tmpDir)
                     /\ calls' = [calls EXCEPT ![i] =
                                    [c EXCEPT !.pc = "extracting",
                                              !.tmpDir = tmpDir]]
                     /\ ret' = Ret("await extract", i, tmpDir, TRUE, FALSE, "")
  /\ UNCHANGED <<clock, files, monitorVars, registryVars>>

\* lines 40-49 (and 61-73): extract settles; up to await parseStringPromise
ExtractSettled(i) ==
  /\ calls[i].pc = "extracting"
  /\ LET c == calls[i]
         archive == ArchiveStore[c.path]
         extracted == extractInto(scratch, c.tmpDir, archive.entries)
     IN IF archive.extractFails
        THEN /\ scratch' = rmSync(scratch, c.tmpDir)
             /\ calls' = [calls EXCEPT ![i] = Failed(c, "extraction error")]
             /\ ret' = Returned(i, calls'[i])
        ELSE IF "XSREGISTER.XML" \notin DOMAIN extracted[c.tmpDir]
        THEN /\ scratch' = rmSync(extracted, c.tmpDir)
             /\ calls' = [calls EXCEPT ![i] =
                            Failed(c, "XSREGISTER.XML not found in archive")]
             /\ ret' = Returned(i, calls'[i])
        ELSE /\ scratch' = extracted
             /\ calls' = [calls EXCEPT ![i] =
                            [c EXCEPT !.pc = "parsing",
                                      !.xml = extracted[c.tmpDir]["XSREGISTER.XML"]]]
             /\ ret' = Ret("await parseStringPromise", i, c.tmpDir, TRUE,
                           FALSE, "")
  /\ UNCHANGED <<clock, files, monitorVars, registryVars>>

\* lines 49-60 (and 61-73): the XML parse settles; up to the return
ParseSettled(i) ==
  /\ calls[i].pc = "parsing"
  /\ LET c == calls[i]
     IN IF c.xml = "malformed"
        THEN /\ scratch' = rmSync(scratch, c.tmpDir)
             /\ calls' = [calls EXCEPT ![i] = Failed(c, "XML parse error")]
        ELSE /\ scratch' = scratch
             /\ calls' = [calls EXCEPT ![i] =
                            [c EXCEPT !.pc = "returned", !.success = TRUE]]
  /\ ret' = Returned(i, calls'[i])
  /\ UNCHANGED <<clock, files, monitorVars, registryVars>>

\* the caller of a successful invocation releases it: cleanup(tempDir)
Cleanup(i) ==
  /\ calls[i].pc = "returned"
  /\ calls[i].success
  /\ scratch' = rmSync(scratch, calls[i].tmpDir)
  /\ calls' = [calls EXCEPT ![i].pc = "released"]
  /\ ret' = Ret("cleanup", i, calls[i].tmpDir, calls[i].tmpDir \in DOMAIN scratch,
                FALSE, "")
  /\ UNCHANGED <<clock, files, monitorVars, registryVars>>

\* what a route handler answers for invocation i
Responded(i, route, status, cleaned) ==
  [cleaned |-> cleaned]
  @@ Ret(route, i, calls[i].tmpDir, status = "200", FALSE, status)

(* POST /:username/parse from the return of parseSettings on: 400 when the *)
(* parse failed, 400 when saveParsedConfig reports a failure (saved is     *)
(* whether it wrote the file), else cleanup and 200.                       *)
ParseRoute(i, saved) ==
  /\ calls[i].pc = "returned"
  /\ calls' = [calls EXCEPT ![i].pc = "responded"]
  /\ IF ~calls[i].success \/ ~saved
     THEN /\ ret' = Responded(i, "POST /:username/parse", "400", FALSE)
          /\ UNCHANGED scratch
     ELSE /\ scratch' = rmSync(scratch, calls[i].tmpDir)
          /\ ret' = Responded(i, "POST /:username/parse", "200", TRUE)
  /\ UNCHANGED <<clock, files, monitorVars, registryVars>>

(* POST /auto-import and POST /import-file from the return of parseSettings *)
(* on: 400 when the parse failed; the result of saveParsedConfig is not     *)
(* looked at; when generateScannerConfig throws, the catch answers 500;     *)
(* else saveScannerConfig, cleanup and 200.                                 *)
ImportRoute(i, route, generated) ==
  /\ calls[i].pc = "returned"
  /\ calls' = [calls EXCEPT ![i].pc = "responded"]
  /\ IF ~calls[i].success
     THEN /\ ret' = Responded(i, route, "400", FALSE)
          /\ UNCHANGED scratch
     ELSE IF ~generated
     THEN /\ ret' = Responded(i, route, "500", FALSE)
          /\ UNCHANGED scratch
     ELSE /\ scratch' = rmSync(scratch, calls[i].tmpDir)
          /\ ret' = Responded(i, route, "200", TRUE)
  /\ UNCHANGED <<clock, files, monitorVars, registryVars>>

ImportRoutes == {"POST /auto-import", "POST /import-file"}

-----------------------------------------------------------------------------
(* ServerPathsManifest: isLikelyPath and classifyPath, on strings as       *)
(* sequences of characters.                                                *)

\* the characters of the strings classified: separators, the colon, drive
\* letters of both cases and kinds, and a character that is no letter
PathAlphabet == {"\\", "/", ":", "C", "d", "G", "p", "1"}

PathStrings == UNION {[1..n -> PathAlphabet] : n \in 0..MaxPathLen}

\* /^[A-Z]/i on the first character
IsDriveLetter(c) == ToUpperCase(c) \in UpperLetters

isLikelyPath(str) ==
  IF Len(str) < 3 THEN FALSE
  ELSE IF IsDriveLetter(str[1]) /\ str[2] = ":" /\ str[3] = "\\" THEN TRUE
  ELSE IF /\ str[1] = "\\" /\ str[2] = "\\"
          /\ \E k \in 4..Len(str) :
               /\ str[k] = "\\"
               /\ \A j \in 3..(k - 1) : str[j] # "\\"
       THEN TRUE
  ELSE str[1] = "/" /\ Len(str) > 3

\* classifyPath with the drive letter compared as written
classifyPath_CaseSensitive(pathStr) ==
  IF Len(pathStr) >= 2 /\ pathStr[1] = "\\" /\ pathStr[2] = "\\"
  THEN [type |-> "server", drive |-> "network-share"]
  ELSE IF Len(pathStr) >= 2 /\ IsDriveLetter(pathStr[1]) /\ pathStr[2] = ":"
  THEN IF pathStr[1] \in {"C", "D", "E", "F"}
       THEN [type |-> "local", drive |-> pathStr[1]]
       ELSE [type |-> "server", drive |-> pathStr[1]]
  ELSE IF Len(pathStr) >= 1 /\ pathStr[1] = "/"
  THEN [type |-> "unclear", drive |-> "unix-path"]
  ELSE [type |-> "unclear", drive |-> "unknown"]

classifyPath(pathStr) ==
  IF Len(pathStr) >= 2 /\ pathStr[1] = "\\" /\ pathStr[2] = "\\"
  THEN [type |-> "server", drive |-> "network-share"]
  ELSE IF Len(pathStr) >= 2 /\ IsDriveLetter(pathStr[1]) /\ pathStr[2] = ":"
  THEN LET drive == ToUpperCase(pathStr[1])
       IN IF drive \in {"C", "D", "E", "F"}
          THEN [type |-> "local", drive |-> drive]
          ELSE [type |-> "server", drive |-> drive]
  ELSE IF /\ Len(pathStr) = 2 /\ pathStr[1] \in UpperLetters
          /\ pathStr[2] = ":" /\ pathStr[1] \notin {"C", "D", "E", "F"}
  THEN [type |-> "server", drive |-> pathStr[1]]
  ELSE IF Len(pathStr) >= 1 /\ pathStr[1] = "/"
  THEN [type |-> "unclear", drive |-> "unix-path"]
  ELSE [type |-> "unclear", drive |-> "unknown"]

\* one string classified three ways: classifyPath and the two isServerPath
ClassifyPath(pathStr) ==
  /\ ret' = [type |-> classifyPath(pathStr).type,
             drive |-> classifyPath(pathStr).drive,
             likely |-> isLikelyPath(pathStr),
             registry |-> RegistryIsServerPath(pathStr),
             monitor |-> MonitorIsServerPath(pathStr)]
            @@ Ret("classifyPath", pathStr, Undefined, TRUE, FALSE, "")
  /\ UNCHANGED <<parserVars, clock, files, monitorVars, registryVars>>

-----------------------------------------------------------------------------
(* mapPathTokens of UserProfileService and of SettingsParser.  A template  *)
(* is a sequence of characters; a token map is the sequence of its         *)
(* <<token, value>> entries in Object.entries order.                       *)

TemplateAlphabet == {"[", "]", "A", "B", "x"}

Templates == UNION {[1..n -> TemplateAlphabet] : n \in 0..MaxTemplateLen}

TokenMaps ==
  {<< <<"A", <<"1">>>> >>,
   << <<"A", <<"1">>>>, <<"B", <<"2", "2">>>> >>,
   << <<"B", <<"2", "2">>>>, <<"A", <<"B">>>> >>,
   << <<"A", <<"[", "A", "]">>>> >>}

\* `[${token}]`
Bracketed(token) == <<"[", token, "]">>

\* s.indexOf(pat) + 1: the first place pat occurs in s, 0 when it does not
IndexOf(s, pat) ==
  LET hits == {i \in 1..(Len(s) - Len(pat) + 1) :
                 SubSeq(s, i, i + Len(pat) - 1) = pat}
  IN IF hits = {} THEN 0 ELSE CHOOSE i \in hits : \A j \in hits : i <= j

\* s.replace(pat, val) with a string pattern: the first occurrence only
ReplaceFirst(s, pat, val) ==
  LET i == IndexOf(s, pat)
  IN IF i = 0 THEN s
     ELSE SubSeq(s, 1, i - 1) \o val \o SubSeq(s, i + Len(pat), Len(s))

\* s.replace(new RegExp(pat, 'g'), val): every occurrence, left to right
RECURSIVE ReplaceAll(_, _, _)
ReplaceAll(s, pat, val) ==
  LET i == IndexOf(s, pat)
  IN IF i = 0 THEN s
     ELSE SubSeq(s, 1, i - 1) \o val
          \o ReplaceAll(SubSeq(s, i + Len(pat), Len(s)), pat, val)

\* mapPathTokens that stops after the first entry of the token map
ProfileMapPathTokens_FirstEntryOnly(pathString, tokenMap) ==
  IF pathString = <<>> \/ tokenMap = <<>> THEN pathString
  ELSE ReplaceAll(pathString, Bracketed(Head(tokenMap)[1]),
                  Head(tokenMap)[2])

\* UserProfileService.mapPathTokens(pathString, tokenMap)
RECURSIVE ProfileMapPathTokens(_, _)
ProfileMapPathTokens(pathString, tokenMap) ==
  IF pathString = <<>> \/ tokenMap = <<>> THEN pathString
  ELSE ProfileMapPathTokens(
         ReplaceAll(pathString, Bracketed(Head(tokenMap)[1]),
                    Head(tokenMap)[2]),
         Tail(tokenMap))

\* SettingsParser.mapPathTokens(path, tokenMap)
RECURSIVE ParserMapPathTokens(_, _)
ParserMapPathTokens(path, tokenMap) ==
  IF tokenMap = <<>> THEN path
  ELSE ParserMapPathTokens(
         ReplaceFirst(path, Bracketed(Head(tokenMap)[1]), Head(tokenMap)[2]),
         Tail(tokenMap))

ProfileMapTokens(template, tokenMap) ==
  /\ ret' = [out |-> ProfileMapPathTokens(template, tokenMap)]
            @@ Ret("UserProfileService.mapPathTokens", template, tokenMap,
                   TRUE, FALSE, "")
  /\ UNCHANGED <<parserVars, clock, files, monitorVars, registryVars>>

\* mapPathTokens(mapPathTokens(template, tokenMap), tokenMap): the second
\* call, made on the output of the first with the same token map
ProfileMapTokensAgain ==
  /\ ret.op = "UserProfileService.mapPathTokens"
  /\ "rerun" \notin DOMAIN ret
  /\ ret' = [rerun |-> TRUE,
             out |-> ProfileMapPathTokens(ret.out, ret.a2)]
            @@ Ret("UserProfileService.mapPathTokens", ret.out, ret.a2,
                   TRUE, FALSE, "")
  /\ UNCHANGED <<parserVars, clock, files, monitorVars, registryVars>>

ParserMapTokens(template, tokenMap) ==
  /\ ret' = [out |-> ParserMapPathTokens(template, tokenMap)]
            @@ Ret("SettingsParser.mapPathTokens", template, tokenMap,
                   TRUE, FALSE, "")
  /\ UNCHANGED <<parserVars, clock, files, monitorVars, registryVars>>

-----------------------------------------------------------------------------
(* UserProfileService.generateScannerConfig.  A key is the sequence of the *)
(* words it is spelled from and key.includes(word) asks whether the word   *)
(* occurs in it; a path or template is a sequence of characters and names. *)
(* A property whose value is undefined is left out of the record, as       *)
(* JSON.stringify leaves it out of the saved file.                         *)

Usernames == {"anna", "bob"}

\* key.includes(word)
Includes(key, word) == \E i \in 1..Len(key) : key[i] = word

\* str.startsWith(prefix)
StartsWith(str, prefix) ==
  Len(str) >= Len(prefix) /\ SubSeq(str, 1, Len(prefix)) = prefix

\* `C:\\Users\\${username}\\AppData\\Roaming`
userAppDataPath(username) ==
  <<"C", ":", "\\", "Users", "\\", username, "\\", "AppData", "\\", "Roaming">>

generateTokenMap(username) ==
  << <<"HYPERMILL", <<"C", ":", "\\", "Program Files", "\\", "OPEN MIND",
                      "\\", "hyperMILL", "\\", "33.0">>>>,
     <<"TOOLDB", <<"C", ":", "\\", "Program Files", "\\", "OPEN MIND",
                   "\\", "Tool Database", "\\", "33.0">>>>,
     <<"APPDATA", userAppDataPath(username)>>,
     <<"USER_CFG", userAppDataPath(username)>>,
     <<"VERSION", <<"33.0">>>>,
     <<"USER", <<username>>>>,
     <<"MAJOR_VERSION", <<"33">>>>,
     <<"GWS", <<"C", ":", "\\", "Users", "\\", "Public", "\\", "Documents",
                "\\", "OPEN MIND">>>>,
     <<"PUBLICDOCUMENTS", <<"C", ":", "\\", "Users", "\\", "Public", "\\",
                            "Documents">>>>,
     <<"COMMON_APPDATA", <<"C", ":", "\\", "ProgramData">>>>,
     <<"SWTEMPPATH", userAppDataPath(username)
                     \o <<"\\", "OPEN MIND", "\\", "temp", "\\">>>> >>

\* categorizePathType with the Tool rule tried before the Automation rule
categorizePathType_ToolFirst(key) ==
  IF Includes(key, "Tool") THEN "tool-database"
  ELSE IF Includes(key, "Automation") THEN "automation-center"
  ELSE IF Includes(key, "cfg") THEN "configuration"
  ELSE IF Includes(key, "Database") THEN "database"
  ELSE "other"

categorizePathType(key) ==
  IF Includes(key, "Automation") THEN "automation-center"
  ELSE IF Includes(key, "Tool") THEN "tool-database"
  ELSE IF Includes(key, "cfg") THEN "configuration"
  ELSE IF Includes(key, "Database") THEN "database"
  ELSE "other"

\* rec with the properties of extra added when cond holds
With(cond, extra, rec) == IF cond THEN extra @@ rec ELSE rec

\* the entry pushed for a user directory
directoryEntry(dir, tokenMap) ==
  [path |-> ProfileMapPathTokens(dir.path, tokenMap),
   pathTemplate |-> dir.path,
   type |-> categorizePathType(dir.key),
   key |-> dir.key]

\* the entry pushed for a user file
fileEntry(file, tokenMap) ==
  [path |-> ProfileMapPathTokens(file.path, tokenMap),
   pathTemplate |-> file.path,
   type |-> "user-config-file",
   key |-> file.key,
   isFile |-> TRUE]

\* the elements of a list that its forEach pushes an entry for, in the
\* order of the list
kept(list) ==
  LET notCompany(e) == ~Includes(e.key, "company")
  IN SelectSeq(list, notCompany)

\* the directory entries pushed for a list of user directories
pushedDirectories(list, tokenMap) ==
  [i \in 1..Len(kept(list)) |-> directoryEntry(kept(list)[i], tokenMap)]

\* the file entries pushed for a list of user files
pushedFiles(list, tokenMap) ==
  [i \in 1..Len(kept(list)) |-> fileEntry(kept(list)[i], tokenMap)]

\* pathsToScan with the user files pushed before the user directories
pathsToScan_FilesFirst(userSettings, tokenMap) ==
  pushedFiles(userSettings.userFiles, tokenMap)
  \o pushedDirectories(userSettings.userDirectories, tokenMap)

\* pathsToScan with every entry pushed, company or not
pathsToScan_Unfiltered(userSettings, tokenMap) ==
  [i \in 1..Len(userSettings.userDirectories) |->
     directoryEntry(userSettings.userDirectories[i], tokenMap)]
  \o [i \in 1..Len(userSettings.userFiles) |->
        fileEntry(userSettings.userFiles[i], tokenMap)]

pathsToScan(userSettings, tokenMap) ==
  pushedDirectories(userSettings.userDirectories, tokenMap)
  \o pushedFiles(userSettings.userFiles, tokenMap)

\* p && (p.startsWith('\\\\') || p.startsWith('Y:\\')), for a path p that
\* is not undefined
isNetworkPath(p) ==
  StartsWith(p, <<"\\", "\\">>) \/ StartsWith(p, <<"Y", ":", "\\">>)

scanMachine(m) ==
  With(m.mdfPath # Undefined, [isNetworkPath |-> isNetworkPath(m.mdfPath)],
       [name |-> m.name, mdfPath |-> m.mdfPath,
        postProcessor |-> m.postProcessor])

scanDatabase(db) ==
  With(db.path # Undefined, [isNetworkPath |-> isNetworkPath(db.path)],
       [path |-> db.path, type |-> db.type])

\* isAccessible: null
scanShare(share) ==
  [name |-> share.name, path |-> share.path, isAccessible |-> Undefined]

\* some key of a list is undefined: key.includes throws a TypeError
KeyMissing(list) == \E i \in 1..Len(list) : list[i].key = Undefined

\* generateScannerConfig(username, parsedConfig) called at time now: the
\* scan config returned, or threw for the rethrown error
generateScannerConfig(username, parsedConfig, now) ==
  LET tokenMap == generateTokenMap(username)
      userSettings == parsedConfig.userSettings
      scanConfig ==
        [username |-> username,
         generatedAt |-> ToISOString(now),
         sourceScan |-> "hyperMILL-omSettings",
         tokenMap |-> tokenMap,
         pathsToScan |-> pathsToScan(userSettings, tokenMap),
         databases |->
           [toolDatabases |->
              [i \in 1..Len(parsedConfig.databases.tool) |->
                 scanDatabase(parsedConfig.databases.tool[i])],
            macroDatabases |->
              [i \in 1..Len(parsedConfig.databases.macro) |->
                 scanDatabase(parsedConfig.databases.macro[i])]]]
  IN IF KeyMissing(userSettings.userDirectories)
        \/ KeyMissing(userSettings.userFiles)
     THEN [threw |-> TRUE]
     ELSE [threw |-> FALSE,
           scanConfig |->
             With(Len(parsedConfig.machines) > 0,
                  [machines |-> [i \in 1..Len(parsedConfig.machines) |->
                                   scanMachine(parsedConfig.machines[i])]],
             With(Len(parsedConfig.networkShares) > 0,
                  [networkShares |->
                     [i \in 1..Len(parsedConfig.networkShares) |->
                        scanShare(parsedConfig.networkShares[i])]],
                  scanConfig))]

\* a call of generateScannerConfig
GenerateScannerConfig(username, parsedConfig) ==
  LET r == generateScannerConfig(username, parsedConfig, clock)
  IN /\ ret' = IF r.threw
               THEN RetError("generateScannerConfig", username, parsedConfig,
                             "Failed to generate scanner config")
               ELSE [out |-> r.scanConfig]
                    @@ Ret("generateScannerConfig", username, parsedConfig,
                           TRUE, FALSE, "")
     /\ UNCHANGED <<parserVars, clock, files, monitorVars, registryVars>>

\* a second call with the arguments of the call that just returned
GenerateScannerConfigAgain ==
  LET r == generateScannerConfig(ret.a1, ret.a2, clock)
  IN /\ ret.op = "generateScannerConfig"
     /\ ret.success
     /\ "first" \notin DOMAIN ret
     /\ ~r.threw
     /\ ret' = [first |-> ret.out, out |-> r.scanConfig]
               @@ Ret("generateScannerConfig", ret.a1, ret.a2,
                      TRUE, FALSE, "")
     /\ UNCHANGED <<parserVars, clock, files, monitorVars, registryVars>>

\* time passes between two calls
Elapse ==
  /\ clock < MaxClock
  /\ clock' = clock + 1
  /\ UNCHANGED <<parserVars, files, monitorVars, registryVars, ret>>

\* userDirectories / userFiles entries as extractUserSettingsRecursively
\* pushes them: {key, path}
ScanEntries ==
  {[key |-> <<"user", "Automation", "Tool">>,
    path |-> <<"[", "USER_CFG", "]", "\\", "hm.cfg">>],
   [key |-> <<"Tool", "cfg">>,
    path |-> <<"[", "USER", "]", "\\", "[", "USER", "]">>],
   [key |-> <<"cfg", "Database">>,
    path |-> <<"[", "NOTOKEN", "]", "\\", "x">>],
   [key |-> <<"Database">>, path |-> <<"[", "USER_CFG", "]", "\\", "hm.cfg">>],
   [key |-> <<"user">>, path |-> Undefined],
   [key |-> <<"company", "Tool">>,
    path |-> <<"[", "USER_CFG", "]", "\\", "hm.cfg">>],
   [key |-> <<"Company", "cfg">>,
    path |-> <<"[", "USER", "]", "\\", "[", "USER", "]">>],
   [key |-> Undefined, path |-> <<"[", "USER_CFG", "]", "\\", "hm.cfg">>]}

EntryLists == UNION {[1..n -> ScanEntries] : n \in 0..MaxEntries}

\* mdfPath and database paths
DevicePaths ==
  {<<"\\", "\\", "srv", "\\", "m">>, <<"Y", ":", "\\", "m">>,
   <<"P", ":", "\\", "m">>, <<"Z", ":", "\\", "m">>, <<"y", ":", "\\", "m">>,
   <<"C", ":", "\\", "m">>, Undefined}

MachineLists ==
  {<<>>} \cup {<<[name |-> "M1", mdfPath |-> p, postProcessor |-> "pp",
                  machineModel |-> "mm"]>> : p \in DevicePaths}

DatabaseLists ==
  {<<>>} \cup {<<[path |-> p, type |-> "global"]>> : p \in DevicePaths}

ShareLists ==
  {<<>>, <<[name |-> "MDF-M1", path |-> <<"\\", "\\", "srv", "\\", "m">>,
            type |-> "machine-definition"]>>}

\* the part of a Configuration that generateScannerConfig reads
ParsedConfig(dirs, userFiles, machines, tool, macro, shares) ==
  [userSettings |-> [userDirectories |-> dirs, userFiles |-> userFiles],
   machines |-> machines,
   databases |-> [tool |-> tool, macro |-> macro],
   networkShares |-> shares]

ParsedConfigs ==
  {ParsedConfig(d, f, <<>>, <<>>, <<>>, <<>>) :
     d \in EntryLists, f \in EntryLists}
  \cup {ParsedConfig(<<>>, <<>>, m, t, c, s) :
          m \in MachineLists, t \in DatabaseLists, c \in DatabaseLists,
          s \in ShareLists}

-----------------------------------------------------------------------------
(* SettingsParser.extractConfiguration.  The parsed manifest is its root   *)
(* (the hyperMILL element: absent, without a Name attribute, or complete)  *)
(* and the setting elements under it in the order the walk visits them.    *)
(* A setting is the element it wraps, its Key, whether the wrapped element *)
(* carries its attributes (reading an attribute of one that has none       *)
(* throws a TypeError), and the paths those attributes give.               *)

EmptyConfig ==
  [version |-> Undefined, shared |-> <<>>, machines |-> <<>>,
   tool |-> <<>>, macro |-> <<>>, userValues |-> <<>>,
   userDirectories |-> <<>>, userFiles |-> <<>>,
   automationPaths |-> <<>>, networkShares |-> <<>>]

Setting(element, key, attrs, p, postProcessor) ==
  [element |-> element, key |-> key, attrs |-> attrs, path |-> p,
   postProcessor |-> postProcessor]

\* list with share appended when cond holds
PushIf(cond, list, share) == IF cond THEN Append(list, share) ELSE list

UNCPrefix == <<"\\", "\\">>

YPrefix == <<"Y", ":", "\\">>

\* the ConfigRegistry branch of extractSettingPath
extractRegistry(setting, config) ==
  [config EXCEPT
     !.shared = Put(@, setting.key, [value |-> setting.path]),
     !.networkShares =
        PushIf(setting.path # Undefined /\ StartsWith(setting.path, UNCPrefix),
               @, [name |-> setting.key, path |-> setting.path]),
     !.automationPaths =
        PushIf(Includes(setting.key, "Automation")
                 \/ Includes(setting.key, "automation"),
               @, [name |-> setting.key, path |-> setting.path])]

\* the ConfigMDF branch, for one MachineDefinition
extractMachine(setting, config) ==
  [config EXCEPT
     !.machines = Append(@, [name |-> "M1", mdfPath |-> setting.path,
                             postProcessor |-> setting.postProcessor,
                             machineModel |-> "mm"]),
     !.networkShares =
        PushIf(setting.postProcessor # Undefined
                 /\ StartsWith(setting.postProcessor, YPrefix),
               PushIf(setting.path # Undefined
                        /\ StartsWith(setting.path, UNCPrefix),
                      @, [name |-> <<"MDF-", "M1">>, path |-> setting.path]),
               [name |-> <<"PostProcessor-", "M1">>,
                path |-> setting.postProcessor])]

\* the tool / macro database branch, for one database of a path
extractDatabase(setting, config) ==
  LET network == \/ StartsWith(setting.path, YPrefix)
                 \/ StartsWith(setting.path, UNCPrefix)
  IN IF setting.element = "ToolDatabase"
     THEN [config EXCEPT
             !.tool = Append(@, [path |-> setting.path, type |-> "global"]),
             !.networkShares =
                PushIf(network, @, [name |-> <<"ToolDB-", setting.path>>,
                                    path |-> setting.path])]
     ELSE [config EXCEPT
             !.macro = Append(@, [path |-> setting.path, type |-> "global"]),
             !.networkShares =
                PushIf(network, @, [name |-> <<"MacroDB-", setting.path>>,
                                    path |-> setting.path])]

\* extractSettingPath(setting, config): the config after it, and whether it
\* threw
extractSettingPath(setting, config) ==
  IF setting.key = Undefined THEN [threw |-> FALSE, config |-> config]
  ELSE IF setting.element = "ConfigRegistry"
  THEN IF ~setting.attrs THEN [threw |-> TRUE, config |-> config]
       ELSE [threw |-> FALSE, config |-> extractRegistry(setting, config)]
  ELSE IF setting.element = "ConfigMDF" /\ setting.key = <<"MDF">>
  THEN IF ~setting.attrs THEN [threw |-> TRUE, config |-> config]
       ELSE [threw |-> FALSE, config |-> extractMachine(setting, config)]
  ELSE IF /\ setting.element \in {"ToolDatabase", "MacroDatabase"}
          /\ setting.key = <<"DBProjects">>
  THEN IF ~setting.attrs THEN [threw |-> TRUE, config |-> config]
       ELSE IF setting.path = Undefined
       THEN [threw |-> FALSE, config |-> config]
       ELSE [threw |-> FALSE, config |-> extractDatabase(setting, config)]
  ELSE [threw |-> FALSE, config |-> config]

\* one element under UserSettings: a registry value, a user directory or a
\* user file
extractUserSetting(setting, config) ==
  IF setting.element = "UserRegistry"
  THEN IF setting.key = Undefined THEN [threw |-> FALSE, config |-> config]
       ELSE IF ~setting.attrs THEN [threw |-> TRUE, config |-> config]
       ELSE [threw |-> FALSE,
             config |-> [config EXCEPT
                           !.userValues =
                              Put(@, setting.key, [value |-> setting.path])]]
  ELSE IF ~setting.attrs THEN [threw |-> TRUE, config |-> config]
  ELSE IF setting.element = "UserDirectory"
  THEN [threw |-> FALSE,
        config |-> [config EXCEPT
                      !.userDirectories =
                         Append(@, [key |-> setting.key,
                                    path |-> setting.path])]]
  ELSE [threw |-> FALSE,
        config |-> [config EXCEPT
                      !.userFiles =
                         Append(@, [key |-> setting.key,
                                    path |-> setting.path])]]

UserElements == {"UserRegistry", "UserDirectory", "UserFile"}

\* the forEach loops over the settings, ended by the first throw
RECURSIVE extractSettings(_, _)
extractSettings(settings, config) ==
  IF settings = <<>> THEN config
  ELSE LET r == IF Head(settings).element \in UserElements
                THEN extractUserSetting(Head(settings), config)
                ELSE extractSettingPath(Head(settings), config)
       IN IF r.threw THEN r.config
          ELSE extractSettings(Tail(settings), r.config)

\* extractConfiguration(xmlObj): every error is caught and the config built
\* so far is returned
extractConfiguration(xmlObj) ==
  IF xmlObj.root = "absent" THEN EmptyConfig
  ELSE extractSettings(
         xmlObj.settings,
         IF xmlObj.root = "complete"
         THEN [EmptyConfig EXCEPT
                 !.version = [name |-> "hyperMILL", major |-> "33",
                              minor |-> "0"]]
         ELSE EmptyConfig)

\* lines 51-60 of parseSettings: the configuration extracted from the parsed
\* manifest and returned with success: true
ExtractConfiguration(xmlObj) ==
  /\ ret' = [out |-> extractConfiguration(xmlObj)]
            @@ Ret("extractConfiguration", xmlObj, Undefined, TRUE, FALSE, "")
  /\ UNCHANGED <<parserVars, clock, files, monitorVars, registryVars>>

\* paths found in a manifest
ManifestPaths ==
  {<<"\\", "\\", "srv", "\\", "m">>, <<"Y", ":", "\\", "m">>,
   <<"P", ":", "\\", "m">>, <<"C", ":", "\\", "m">>}

PostProcessorPaths ==
  {<<"\\", "\\", "srv", "\\", "pp">>, <<"Y", ":", "\\", "pp">>,
   <<"C", ":", "\\", "pp">>}

\* the setting elements of a manifest: well-formed ones, elements the walk
\* does not know, settings without Key, and elements without attributes
ManifestSettings ==
  {Setting("ConfigRegistry", k, TRUE, p, Undefined) :
     k \in {<<"Reg">>, <<"Automation", "Dir">>}, p \in ManifestPaths}
  \cup {Setting("ConfigMDF", <<"MDF">>, TRUE, p, pp) :
          p \in ManifestPaths, pp \in PostProcessorPaths}
  \cup {Setting(e, <<"DBProjects">>, TRUE, p, Undefined) :
          e \in {"ToolDatabase", "MacroDatabase"}, p \in ManifestPaths}
  \cup {Setting("Unknown", <<"Reg">>, TRUE, Undefined, Undefined),
        Setting("ConfigRegistry", Undefined, TRUE,
                <<"Y", ":", "\\", "m">>, Undefined),
        Setting("ConfigRegistry", <<"Reg">>, FALSE, Undefined, Undefined),
        Setting("ConfigMDF", <<"MDF">>, FALSE, Undefined, Undefined),
        Setting("ToolDatabase", <<"DBProjects">>, FALSE, Undefined, Undefined),
        Setting("UserRegistry", <<"Reg">>, TRUE, <<"1">>, Undefined),
        Setting("UserDirectory", <<"user">>, TRUE,
                <<"[", "USER_CFG", "]", "\\", "hm.cfg">>, Undefined),
        Setting("UserDirectory", Undefined, FALSE, Undefined, Undefined),
        Setting("UserFile", <<"Tool", "cfg">>, TRUE,
                <<"[", "USER", "]", "\\", "[", "USER", "]">>, Undefined)}

Manifests ==
  {[root |-> r, settings |-> l] :
     r \in {"absent", "incomplete", "complete"},
     l \in UNION {[1..n -> ManifestSettings] : n \in 0..MaxSettings}}

-----------------------------------------------------------------------------
(* The environment: time passes; files are written and deleted by others.  *)

\* POST /init: fileMapping.ensureDirectories()
EnsureDirectories ==
  /\ metadataDirExists' = TRUE
  /\ ret' = Ret("ensureDirectories", Undefined, Undefined, TRUE, FALSE, "")
  /\ UNCHANGED <<parserVars, clock, files, monitorVars, mappings, mapFile>>

Tick ==
  /\ clock < MaxClock
  /\ clock' = clock + 1
  /\ ret' = Ret("tick", Undefined, Undefined, TRUE, FALSE, "")
  /\ UNCHANGED <<parserVars, files, monitorVars, registryVars>>

EnvWrite(p, b) ==
  /\ files' = Put(files, p, [bytes |-> b, mtime |-> clock])
  /\ ret' = Ret("envWrite", p, Undefined, TRUE, FALSE, "")
  /\ UNCHANGED <<parserVars, clock, monitorVars, registryVars>>

EnvDelete(p) ==
  /\ existsSync(files, p)
  /\ files' = Drop(files, p)
  /\ ret' = Ret("envDelete", p, Undefined, TRUE, FALSE, "")
  /\ UNCHANGED <<parserVars, clock, monitorVars, registryVars>>

-----------------------------------------------------------------------------

\* what loadVersionHistory finds: nothing, or the record of LocalFile
TrackedLocalFile ==
  [p \in {LocalFile} |->
     [filename |-> "x.cfg", originalServer |-> ServerFile,
      cachedAt |-> ToISOString(-1), size |-> 1,
      serverModified |-> ToISOString(0), cached |-> TRUE, approved |-> TRUE,
      lastSyncedAt |-> Undefined, lastBackup |-> Undefined]]

\* the state after construction, but for the last call
InitState ==
  /\ clock = 0
  /\ files = [p \in ArgPaths |-> [bytes |-> <<1>>, mtime |-> 0]]
  /\ updateNotifications = <<>>
  /\ metadataDirExists \in BOOLEAN
  /\ serverFileMap \in
       IF metadataDirExists THEN {<<>>, TrackedLocalFile} ELSE {<<>>}
  /\ versionFile = serverFileMap
  /\ mappings = <<>>
  /\ mapFile = <<>>
  /\ scratch = <<>>
  /\ calls = [i \in CallIds |-> Idle]

Init == InitState /\ ret = Ret("init", Undefined, Undefined, TRUE, FALSE, "")

NotificationIds == {NotificationId(t) : t \in 0..MaxClock}

Environment ==
  \/ Tick
  \/ \E p \in ArgPaths, b \in FileBytes : EnvWrite(p, b)
  \/ \E p \in ArgPaths : EnvDelete(p)

NextMonitor ==
  \/ Environment
  \/ \E s \in ArgPaths, l \in ArgPaths : CheckForUpdates(s, l)
  \/ \E s \in ArgPaths, l \in ArgPaths : CreateUpdateNotification(s, l)
  \/ \E id \in NotificationIds : ApproveUpdate(id)
  \/ \E id \in NotificationIds : RejectUpdate(id)

SpecMonitor == Init /\ [][NextMonitor]_vars

NextCache ==
  \/ Tick
  \/ \E b \in FileBytes : EnvWrite(ServerFile, b)
  \/ \E s \in ArgPaths : CopyFromServerToLocal(s)
  \/ \E s \in ArgPaths, l \in ArgPaths : CreateUpdateNotification(s, l)
  \/ \E id \in NotificationIds : ApproveUpdate(id)

SpecCache == Init /\ [][NextCache]_vars

NextRegistry ==
  \/ Tick
  \/ \E b \in FileBytes : EnvWrite(ServerFile, b)
  \/ EnvDelete(ServerFile)
  \/ \E s \in ArgPaths, l \in KeyPaths : AddMapping(s, l, "config")
  \/ \E l \in KeyPaths : CheckForServerUpdate(l)
  \/ \E l \in KeyPaths : MarkAsSynced(l)
  \/ \E l \in KeyPaths : RemoveMapping(l)

InitRegistry == Init /\ serverFileMap = <<>> /\ metadataDirExists

SpecRegistry == InitRegistry /\ [][NextRegistry]_vars

\* the approval workflow next to a registry that maps the same local file
NextSync ==
  \/ Tick
  \/ \E b \in FileBytes : EnvWrite(ServerFile, b)
  \/ \E s \in ArgPaths : AddMapping(s, LocalFile, "config")
  \/ CheckForServerUpdate(LocalFile)
  \/ MarkAsSynced(LocalFile)
  \/ \E s \in ArgPaths, l \in ArgPaths : CreateUpdateNotification(s, l)
  \/ \E id \in NotificationIds : ApproveUpdate(id)

InitSync == Init /\ metadataDirExists

SpecSync == InitSync /\ [][NextSync]_vars

\* one mapping synced again and again, the server file growing once
NextHistory ==
  \/ Tick
  \/ EnvWrite(ServerFile, <<2, 2>>)
  \/ AddMapping(ServerFile, LocalFile, "config")
  \/ CheckForServerUpdate(LocalFile)
  \/ markAsSynced(LocalFile, MaxHistorySyncs)

SpecHistory == InitRegistry /\ [][NextHistory]_vars

\* the registry before and after POST /init, and across restarts
NextDurable ==
  \/ Tick
  \/ \E b \in FileBytes : EnvWrite(ServerFile, b)
  \/ EnvDelete(ServerFile)
  \/ EnsureDirectories
  \/ LoadMappings
  \/ \E s \in ArgPaths : AddMapping(s, LocalFile, "config")
  \/ CheckForServerUpdate(LocalFile)
  \/ MarkAsSynced(LocalFile)
  \/ RemoveMapping(LocalFile)

InitDurable == Init /\ serverFileMap = <<>>

SpecDurable == InitDurable /\ [][NextDurable]_vars

\* requests that parse settings archives, overlapping
NextParser ==
  \/ Tick
  \/ \E i \in CallIds, a \in SettingsPaths : ParseSettings(i, a)
  \/ \E i \in CallIds : ExtractSettled(i)
  \/ \E i \in CallIds : ParseSettled(i)
  \/ \E i \in CallIds : Cleanup(i)

InitParser == Init /\ serverFileMap = <<>> /\ metadataDirExists

SpecParser == InitParser /\ [][NextParser]_vars

\* a call about to be made with arguments a1 and a2
Input(a1, a2) == Ret("input", a1, a2, TRUE, FALSE, "")

\* any string, then classified
InitClassify ==
  /\ InitState /\ serverFileMap = <<>> /\ metadataDirExists
  /\ \E p \in PathStrings : ret = Input(p, Undefined)

NextClassify == ret.op = "input" /\ ClassifyPath(ret.a1)

SpecClassify == InitClassify /\ [][NextClassify]_vars

\* any template and token map, then substituted by either implementation
InitTokens ==
  /\ InitState /\ serverFileMap = <<>> /\ metadataDirExists
  /\ \E t \in Templates, m \in TokenMaps : ret = Input(t, m)

NextTokens ==
  \/ ret.op = "input" /\ ProfileMapTokens(ret.a1, ret.a2)
  \/ ret.op = "input" /\ ParserMapTokens(ret.a1, ret.a2)
  \/ ProfileMapTokensAgain

SpecTokens == InitTokens /\ [][NextTokens]_vars

\* any parsed configuration and username, then a scan config generated once
\* or twice, at the same time or later
InitScan ==
  /\ InitState /\ serverFileMap = <<>> /\ metadataDirExists
  /\ \E u \in Usernames, c \in ParsedConfigs : ret = Input(u, c)

NextScan ==
  \/ ret.op = "input" /\ GenerateScannerConfig(ret.a1, ret.a2)
  \/ GenerateScannerConfigAgain
  \/ Elapse

SpecScan == InitScan /\ [][NextScan]_vars

\* any parsed manifest, then the configuration extracted from it
InitExtract ==
  /\ InitState /\ serverFileMap = <<>> /\ metadataDirExists
  /\ \E x \in Manifests : ret = Input(x, Undefined)

NextExtract == ret.op = "input" /\ ExtractConfiguration(ret.a1)

SpecExtract == InitExtract /\ [][NextExtract]_vars

\* requests to the parse and import routes, overlapping
NextImport ==
  \/ Tick
  \/ \E i \in CallIds, a \in SettingsPaths : ParseSettings(i, a)
  \/ \E i \in CallIds : ExtractSettled(i)
  \/ \E i \in CallIds : ParseSettled(i)
  \/ \E i \in CallIds, saved \in BOOLEAN : ParseRoute(i, saved)
  \/ \E i \in CallIds, route \in ImportRoutes, generated \in BOOLEAN :
       ImportRoute(i, route, generated)

SpecImport == InitParser /\ [][NextImport]_vars

-----------------------------------------------------------------------------
(* Properties *)

\* the first notification of queue with the given id
ActedOn(queue, id) ==
  LET hits == {i \in 1..Len(queue) : queue[i].id = id}
  IN queue[CHOOSE i \in hits : \A j \in hits : i <= j]

CacheFiles == {CachePath(t) : t \in -1..MaxClock}

\* the files at the paths callers pass, as a table
ArgFiles(fs) == [p \in ArgPaths \cap DOMAIN fs |-> fs[p]]

(* C1: the bytes of an existing local cached file are replaced only by a   *)
(* successful approveUpdate(id) whose notification was created for that    *)
(* local path; no other call of the program changes an existing cached     *)
(* file.                                                                   *)
C1_OverwriteOnlyByApproval ==
  [][\A p \in CacheFiles :
       (/\ p \in DOMAIN files
        /\ p \in DOMAIN files'
        /\ files'[p].bytes # files[p].bytes
        /\ ret'.op \notin {"envWrite", "envDelete"})
       => /\ ret'.op = "approveUpdate"
          /\ \E i \in 1..Len(updateNotifications) :
               /\ updateNotifications[i].id = ret'.a1
               /\ updateNotifications[i].localPath = p]_vars

(* C2: a successful approveUpdate leaves, at the notification's backupPath, *)
(* a file holding the bytes the local file had before the call, and the    *)
(* local file holds the server's bytes; and whenever an approveUpdate call *)
(* has touched the local file at all (also a call that then fails), the    *)
(* backup of the pre-call bytes has been made.                             *)
C2_BackupHoldsPreCallBytes ==
  [][/\ (ret'.op = "approveUpdate" /\ ret'.success)
          => LET n == ActedOn(updateNotifications', ret'.a1)
             IN /\ n.backupPath = BackupPath(n.localPath, clock)
                /\ n.backupPath \in DOMAIN files'
                /\ n.localPath \in DOMAIN files
                /\ files'[n.backupPath].bytes = files[n.localPath].bytes
                /\ files'[n.localPath].bytes = files[n.serverPath].bytes
     /\ (ret'.op = "approveUpdate" /\ getNotification(ret'.a1) # 0)
          => LET n == ActedOn(updateNotifications, ret'.a1)
                 touched == \/ n.localPath \notin DOMAIN files'
                            \/ files'[n.localPath] # files[n.localPath]
             IN (n.localPath \in DOMAIN files /\ touched)
                => /\ BackupPath(n.localPath, clock) \in DOMAIN files'
                   /\ files'[BackupPath(n.localPath, clock)].bytes
                        = files[n.localPath].bytes]_vars

\* an approval has replaced the local bytes and the backup keeps the old ones
C2_Witness ==
  /\ ret.op = "approveUpdate"
  /\ ret.success
  /\ LET n == ActedOn(updateNotifications, ret.a1)
     IN /\ n.localPath = LocalFile
        /\ n.backupPath \in DOMAIN files
        /\ files[n.backupPath].bytes = <<1>>
        /\ files[LocalFile].bytes = <<2, 2>>

(* C3: an approveUpdate that returns a failure leaves every local file as   *)
(* it was before the call and leaves the notifications unchanged.          *)
C3_FailedApproveLeavesLocalFile ==
  [][(ret'.op = "approveUpdate" /\ ~ret'.success)
       => /\ ArgFiles(files') = ArgFiles(files)
          /\ updateNotifications' = updateNotifications]_vars

Terminal(n) == (n.approved /\ n.synced) \/ n.rejectedAt # Undefined

(* C4: once a notification is approved+synced or rejected, no call changes *)
(* it, and approveUpdate(id)/rejectUpdate(id) on it leave the file system  *)
(* unchanged.                                                              *)
C4_TerminalStatesAbsorbing ==
  [][\A i \in 1..Len(updateNotifications) :
       Terminal(updateNotifications[i])
       => /\ updateNotifications'[i] = updateNotifications[i]
          /\ (/\ ret'.op \in {"approveUpdate", "rejectUpdate"}
              /\ ret'.a1 = updateNotifications[i].id
              /\ getNotification(ret'.a1) = i)
             => files' = files]_vars

\* server and local file exist and the server's mtime is the newer one
ServerIsNewer(serverPath, localPath) ==
  /\ serverPath \in DOMAIN files
  /\ localPath \in DOMAIN files
  /\ files[serverPath].mtime > files[localPath].mtime

(* C5: createUpdateNotification fails and leaves the queue unchanged when  *)
(* the server file is not newer than the local one or either is missing;   *)
(* otherwise it appends exactly one notification, approved = synced =      *)
(* false, for the given pair; it changes nothing else.                     *)
C5_CreateNotification ==
  [][ret'.op = "createUpdateNotification"
       => /\ IF ServerIsNewer(ret'.a1, ret'.a2)
             THEN /\ ret'.success
                  /\ Len(updateNotifications') = Len(updateNotifications) + 1
                  /\ SubSeq(updateNotifications', 1, Len(updateNotifications))
                       = updateNotifications
                  /\ LET n == updateNotifications'[Len(updateNotifications')]
                     IN /\ ~n.approved /\ ~n.synced
                        /\ n.serverPath = ret'.a1
                        /\ n.localPath = ret'.a2
             ELSE /\ ~ret'.success
                  /\ updateNotifications' = updateNotifications
          /\ UNCHANGED <<files, serverFileMap, versionFile, mappings, mapFile>>
    ]_vars

\* both outcomes have happened: one notification queued, the second call refused
C5_Witness ==
  /\ ret.op = "createUpdateNotification"
  /\ ~ret.success
  /\ ret.a1 = ServerFile
  /\ ret.a2 = LocalFile
  /\ Len(updateNotifications) = 1
  /\ updateNotifications[1].approved

(* C6: after a successful approveUpdate(id) the registry entry keyed by    *)
(* the notification's localPath (for the same server file) holds the       *)
(* server file's current mtime and size as its snapshot.                   *)
C6_ApproveUpdatesRegistrySnapshot ==
  (ret.op = "approveUpdate" /\ ret.success)
    => LET n == ActedOn(updateNotifications, ret.a1)
       IN (/\ n.localPath \in DOMAIN mappings
           /\ mappings[n.localPath].serverPath = n.serverPath)
          => /\ mappings[n.localPath].lastServerModified
                  = ToISOString(files[n.serverPath].mtime)
             /\ mappings[n.localPath].lastServerSize
                  = Len(files[n.serverPath].bytes)

\* drive letters classified local
LocalDriveLetters == {"C", "D", "E", "F"}

CheckFrame(m) ==
  [m EXCEPT !.status = "", !.checkCount = 0, !.lastChecked = Undefined,
            !.serverUpdateDetected = Undefined]

(* C9: checkForUpdate(localPath) changes at most status, checkCount,       *)
(* lastChecked and serverUpdateDetected of that one mapping; the snapshot, *)
(* syncCount and syncHistory of the mapping, every other mapping and every *)
(* file are unchanged.                                                     *)
C9_CheckIsReadOnly ==
  [][ret'.op = "checkForServerUpdate"
       => /\ files' = files
          /\ DOMAIN mappings' = DOMAIN mappings
          /\ \A k \in DOMAIN mappings :
               IF k = ret'.a1
               THEN CheckFrame(mappings'[k]) = CheckFrame(mappings[k])
               ELSE mappings'[k] = mappings[k]]_vars

\* a check found an update on a synced mapping while another mapping exists
C9_Witness ==
  /\ ret.op = "checkForServerUpdate"
  /\ ret.hasUpdate
  /\ DOMAIN mappings = KeyPaths
  /\ mappings[ret.a1].syncCount = 1
  /\ mappings[ret.a1].checkCount = 1

(* C10: a check that finds the mapping but not the server file succeeds    *)
(* with hasUpdate = false, stores status server-file-missing in the        *)
(* mapping (so getByStatus returns it) and updates checkCount and          *)
(* lastChecked.                                                            *)
C10_MissingServerFileRecorded ==
  [][(/\ ret'.op = "checkForServerUpdate"
      /\ ret'.a1 \in DOMAIN mappings
      /\ mappings[ret'.a1].serverPath \notin DOMAIN files)
       => /\ ret'.success
          /\ ~ret'.hasUpdate
          /\ mappings'[ret'.a1].status = "server-file-missing"
          /\ ret'.a1 \in getMappingsByStatus("server-file-missing")'
          /\ mappings'[ret'.a1].checkCount = mappings[ret'.a1].checkCount + 1
          /\ mappings'[ret'.a1].lastChecked = ToISOString(clock)]_vars

RegistryCalls ==
  {"addMapping", "checkForServerUpdate", "markAsSynced", "removeMapping"}

(* C11: a registry call (addMapping, checkForUpdate, markAsSynced, remove) *)
(* that returns a failure leaves the in-memory mapping table and the       *)
(* persisted table exactly as they were before the call.                   *)
C11_FailureLeavesTables ==
  [][(ret'.op \in RegistryCalls /\ ~ret'.success)
       => /\ mappings' = mappings
          /\ mapFile' = mapFile]_vars

\* markAsSynced has failed on a checked mapping whose server file is gone
C11_Witness ==
  /\ ret.op = "markAsSynced"
  /\ ~ret.success
  /\ ret.error = "Server file missing"
  /\ ret.a1 \in DOMAIN mappings
  /\ mappings[ret.a1].checkCount > 0
  /\ mappings[ret.a1].status = "outdated"
  /\ mapFile = mappings

Min(a, b) == IF a < b THEN a ELSE b

\* the syncedAt times of a history never go back
Chronological(h) ==
  \A i \in 1..Len(h), j \in 1..Len(h) :
    i < j => DateGetTime(h[i].syncedAt) <= DateGetTime(h[j].syncedAt)

(* C12: a successful markAsSynced appends its entry to syncHistory and,    *)
(* when that makes 11, evicts the oldest; a check leaves the history       *)
(* alone; so after N syncs of a mapping the history has min(N, 10)         *)
(* entries, the most recent ones, in chronological order.                  *)
C12_SyncHistoryBound ==
  [][/\ \A k \in DOMAIN mappings' :
          /\ Len(mappings'[k].syncHistory) = Min(mappings'[k].syncCount, 10)
          /\ Chronological(mappings'[k].syncHistory)
     /\ (ret'.op = "markAsSynced" /\ ret'.success)
          => LET old == mappings[ret'.a1]
                 new == mappings'[ret'.a1]
                 entry == [syncedAt |-> ToISOString(clock),
                           serverModified |->
                             ToISOString(files[old.serverPath].mtime),
                           serverSize |-> Len(files[old.serverPath].bytes)]
             IN /\ new.syncCount = old.syncCount + 1
                /\ new.syncHistory =
                     IF Len(old.syncHistory) < 10
                     THEN Append(old.syncHistory, entry)
                     ELSE Append(Tail(old.syncHistory), entry)
     /\ (ret'.op = "checkForServerUpdate" /\ ret'.a1 \in DOMAIN mappings)
          => /\ mappings'[ret'.a1].syncHistory = mappings[ret'.a1].syncHistory
             /\ mappings'[ret'.a1].syncCount = mappings[ret'.a1].syncCount
    ]_vars

\* the twelfth sync: ten entries kept, the oldest kept one newer than the
\* first sync, a check in between
C12_Witness ==
  /\ ret.op = "markAsSynced"
  /\ ret.success
  /\ mappings[LocalFile].syncCount = 12
  /\ mappings[LocalFile].checkCount > 0
  /\ Len(mappings[LocalFile].syncHistory) = 10
  /\ mappings[LocalFile].syncHistory[1].serverSize = 1
  /\ mappings[LocalFile].syncHistory[2].serverSize = 2
  /\ mappings[LocalFile].syncHistory[10].syncedAt = ToISOString(1)

(* C13: the checkCount and syncCount of the mapping stored under a         *)
(* localPath never decrease while the key stays in the table, also when    *)
(* addMapping overwrites the entry.                                        *)
C13_CountersMonotone ==
  [][\A k \in DOMAIN mappings \cap DOMAIN mappings' :
       /\ mappings'[k].checkCount >= mappings[k].checkCount
       /\ mappings'[k].syncCount >= mappings[k].syncCount]_vars

(* C14: after every mutating registry call that returns success the        *)
(* mapping file holds the in-memory table (so loadMappings gives back      *)
(* exactly that table), also when the metadata directory is missing.       *)
C14_WriteThrough ==
  [][(ret'.op \in RegistryCalls /\ ret'.success) => mapFile' = mappings']_vars

\* the invocation still owns a scratch directory: it is running, or it has
\* returned success and its caller has not released the directory
HoldsScratch(c) ==
  \/ c.pc \in {"extracting", "parsing"}
  \/ c.pc = "returned" /\ c.success

C16_ScratchIsolation ==
  [][/\ \A i \in CallIds, j \in CallIds :
          (i # j /\ HoldsScratch(calls'[i]) /\ HoldsScratch(calls'[j]))
          => calls'[i].tmpDir # calls'[j].tmpDir
     /\ (ret'.op = "parseSettings" /\ ~ret'.success)
          => \A j \in CallIds \ {ret'.a1} :
               (HoldsScratch(calls[j]) /\ calls[j].tmpDir \in DOMAIN scratch)
               => /\ calls[j].tmpDir \in DOMAIN scratch'
                  /\ scratch'[calls[j].tmpDir] = scratch[calls[j].tmpDir]]_vars

\* the localPath key a registry call is about
CallKey(r) == IF r.op = "addMapping" THEN r.a2 ELSE r.a1

OnServerDrive(p) ==
  /\ Len(p) >= 2
  /\ \/ p[1] = "\\" /\ p[2] = "\\"
     \/ /\ p[2] = ":"
        /\ p[1] \in UpperLetters \ LocalDriveLetters

(* C18: no call of the program creates, overwrites or removes a file at a  *)
(* path on a server drive, whatever paths the callers pass.                *)
C18_ServerDrivesReadOnly ==
  [][ret'.op \notin {"envWrite", "envDelete"}
       => \A p \in DOMAIN files \cup DOMAIN files' :
            OnServerDrive(p)
            => /\ p \in DOMAIN files
               /\ p \in DOMAIN files'
               /\ files'[p] = files[p]]_vars

\* the kind the classification policy gives a string, rule by rule
PolicyKind(p) ==
  IF Len(p) >= 2 /\ p[1] = "\\" /\ p[2] = "\\" THEN "server"
  ELSE IF Len(p) >= 2 /\ p[2] = ":"
          /\ p[1] \in {"C", "D", "E", "F", "c", "d", "e", "f"} THEN "local"
  ELSE IF Len(p) >= 2 /\ p[2] = ":"
          /\ p[1] \in {"G", "g", "P", "p", "Y", "y", "Z", "z"} THEN "server"
  ELSE "unclear"

(* C19: classifyPath gives every string a kind, by the rules in order: UNC *)
(* prefix -> server; drive letter C, D, E or F (either case) -> local; any *)
(* other drive letter -> server; a leading slash, like anything else ->    *)
(* unclear; and both isServerPath say server exactly for the strings       *)
(* classifyPath calls server.                                              *)
C19_Classification ==
  ret.op = "classifyPath"
    => /\ ret.type \in {"server", "local", "unclear"}
       /\ ret.type = PolicyKind(ret.a1)
       /\ (Len(ret.a1) >= 1 /\ ret.a1[1] = "/") => ret.type = "unclear"
       /\ ret.registry <=> ret.type = "server"
       /\ ret.monitor <=> ret.type = "server"

\* a lower-case local drive, of a string that looks like a path
C19_Witness ==
  /\ ret.op = "classifyPath"
  /\ ret.a1 = <<"d", ":", "\\", "p">>
  /\ ret.likely
  /\ ret.type = "local"
  /\ ret.drive = "D"
  /\ ~ret.registry

\* the template with every [K], K a key of the map, replaced by K's value,
\* read left to right; everything else verbatim
RECURSIVE Substituted(_, _)
Substituted(t, m) ==
  IF t = <<>> THEN <<>>
  ELSE LET hits == {e \in 1..Len(m) :
                      /\ Len(t) >= 3
                      /\ SubSeq(t, 1, 3) = <<"[", m[e][1], "]">>}
       IN IF hits = {}
          THEN <<Head(t)>> \o Substituted(Tail(t), m)
          ELSE LET e == CHOOSE x \in hits : TRUE
               IN m[e][2] \o Substituted(SubSeq(t, 4, Len(t)), m)

(* C20: both mapPathTokens return the template with every occurrence of    *)
(* [TOKEN] replaced for every key of the token map, repeated occurrences   *)
(* included, and every other bracketed token left verbatim.                *)
C20_TokenSubstitution ==
  ret.op \in {"UserProfileService.mapPathTokens",
              "SettingsParser.mapPathTokens"}
    => /\ ret.success
       /\ ret.out = Substituted(ret.a1, ret.a2)

\* the string holds [K] for some key K of the token map
HoldsBracketedKey(s, m) ==
  \E e \in 1..Len(m) : IndexOf(s, Bracketed(m[e][1])) # 0

\* no value of the token map holds an opening bracket
BracketFreeValues(m) ==
  \A e \in 1..Len(m) : \A i \in 1..Len(m[e][2]) : m[e][2][i] # "["

\* the second of two calls of UserProfileService.mapPathTokens
IsRerun == ret.op = "UserProfileService.mapPathTokens" /\ "rerun" \in DOMAIN ret

(* C21, as claimed: for any token map and any template, mapPathTokens run  *)
(* again on its own output with the same map returns that output unchanged *)
(* if and only if the output holds no bracketed key of the map.            *)
C21_ClosureAnyMap ==
  IsRerun => (ret.out = ret.a1 <=> ~HoldsBracketedKey(ret.a1, ret.a2))

(* C21, amended: for a token map none of whose values holds an opening     *)
(* bracket, mapPathTokens run again on its own output with the same map    *)
(* returns that output unchanged if and only if the output holds no        *)
(* bracketed key of the map.                                               *)
C21_ClosureBracketFree ==
  (IsRerun /\ BracketFreeValues(ret.a2))
    => (ret.out = ret.a1 <=> ~HoldsBracketedKey(ret.a1, ret.a2))

\* an output that still holds a key, which the second call resolves
C21_Witness ==
  /\ IsRerun
  /\ BracketFreeValues(ret.a2)
  /\ ret.a1 = <<"[", "B", "]">>
  /\ ret.out = <<"2", "2">>

\* the elements of a sequence
Range(seq) == {seq[i] : i \in 1..Len(seq)}

(* C28: the notifications in the queue have pairwise different ids, also   *)
(* when two of them were created within the same clock tick, so an id      *)
(* names the notification that was returned with it.                       *)
C28_UniqueIds ==
  \A i, j \in 1..Len(updateNotifications) :
    i # j => updateNotifications[i].id # updateNotifications[j].id

(* C29: getPendingUpdates returns exactly the notifications that were      *)
(* created and neither approved nor rejected: one that was rejected or     *)
(* approved is not in the pending list.                                    *)
C29_PendingAreUndecided ==
  \A i \in 1..Len(updateNotifications) :
    LET n == updateNotifications[i]
    IN n \in Range(getPendingUpdates)
         <=> (n.syncedAt = Undefined /\ n.rejectedAt = Undefined)

\* the second of two calls of generateScannerConfig returns in this step
SecondGenerated ==
  /\ ret.op = "generateScannerConfig" /\ "first" \notin DOMAIN ret
  /\ ret'.op = "generateScannerConfig" /\ "first" \in DOMAIN ret'

\* the keys of a list of entries
KeysOf(list) == [i \in 1..Len(list) |-> list[i].key]

\* the entries of a list whose key does not hold "company"
NonCompany(list) ==
  LET keep(e) == ~Includes(e.key, "company") IN SelectSeq(list, keep)

\* an entry of pathsToScan that was pushed for a user file
IsFileEntry(e) == "isFile" \in DOMAIN e

Generated == ret.op = "generateScannerConfig" /\ ret.success

\* how many elements of a sequence satisfy a test
Count(seq, Test(_)) == Cardinality({i \in 1..Len(seq) : Test(seq[i])})

(* C23: no userDirectories or userFiles entry whose key holds "company",   *)
(* spelled so, is in pathsToScan, and every entry whose key does not hold  *)
(* it is there exactly once: as often as it is in its list.                *)
C23_CompanyFilter ==
  Generated =>
    LET P == ret.out.pathsToScan
        dirs == ret.a2.userSettings.userDirectories
        userFiles == ret.a2.userSettings.userFiles
        Same(e, in) == e.key = in.key /\ e.pathTemplate = in.path
    IN /\ \A i \in 1..Len(P) : ~Includes(P[i].key, "company")
       /\ \A in \in Range(dirs) :
            LET InP(e) == ~IsFileEntry(e) /\ Same(e, in)
                InList(d) == d = in
            IN Count(P, InP) = IF Includes(in.key, "company") THEN 0
                               ELSE Count(dirs, InList)
       /\ \A in \in Range(userFiles) :
            LET InP(e) == IsFileEntry(e) /\ Same(e, in)
                InList(d) == d = in
            IN Count(P, InP) = IF Includes(in.key, "company") THEN 0
                               ELSE Count(userFiles, InList)
       /\ Len(P) = Len(NonCompany(dirs)) + Len(NonCompany(userFiles))

\* a company directory dropped, a Company file kept
C23_Witness ==
  /\ Generated
  /\ \E i \in 1..Len(ret.a2.userSettings.userDirectories) :
       Includes(ret.a2.userSettings.userDirectories[i].key, "company")
  /\ Len(ret.out.pathsToScan) = 1
  /\ IsFileEntry(ret.out.pathsToScan[1])
  /\ Includes(ret.out.pathsToScan[1].key, "Company")

\* the type the substring rules give a key, tried in this order
TypeByRules(key) ==
  CASE Includes(key, "Automation") -> "automation-center"
    [] ~Includes(key, "Automation") /\ Includes(key, "Tool") -> "tool-database"
    [] ~Includes(key, "Automation") /\ ~Includes(key, "Tool")
       /\ Includes(key, "cfg") -> "configuration"
    [] ~Includes(key, "Automation") /\ ~Includes(key, "Tool")
       /\ ~Includes(key, "cfg") /\ Includes(key, "Database") -> "database"
    [] OTHER -> "other"

\* path is the template with the user's tokens substituted, pathTemplate is
\* the path of an input entry of the same key
PathsResolved(e) ==
  /\ e.path = Substituted(e.pathTemplate, generateTokenMap(ret.a1))
  /\ \E in \in Range(ret.a2.userSettings.userDirectories)
                 \cup Range(ret.a2.userSettings.userFiles) :
       in.key = e.key /\ in.path = e.pathTemplate

(* C24, as claimed: every pathsToScan entry, of a user directory or of a   *)
(* user file, has the type the substring rules give its key (Automation,   *)
(* Tool, cfg, Database, else other, in this order), its path is the        *)
(* substituted template and pathTemplate the original.                     *)
C24_TypeByRulesForAll ==
  Generated =>
    \A i \in 1..Len(ret.out.pathsToScan) :
      LET e == ret.out.pathsToScan[i]
      IN e.type = TypeByRules(e.key) /\ PathsResolved(e)

(* C24, amended: every pathsToScan entry of a user directory has the type  *)
(* the substring rules give its key (Automation, Tool, cfg, Database, else *)
(* other, in this order); every entry of a user file has the type          *)
(* user-config-file whatever its key; for both, path is the substituted    *)
(* template and pathTemplate the original.                                 *)
C24_TypeByRulesForDirectories ==
  Generated =>
    \A i \in 1..Len(ret.out.pathsToScan) :
      LET e == ret.out.pathsToScan[i]
      IN /\ e.type = IF IsFileEntry(e) THEN "user-config-file"
                     ELSE TypeByRules(e.key)
         /\ PathsResolved(e)

\* a directory whose key holds Automation and Tool, a file whose key holds
\* Tool, and a resolved path
C24_Witness ==
  /\ Generated
  /\ Len(ret.out.pathsToScan) = 2
  /\ ret.out.pathsToScan[1].key = <<"user", "Automation", "Tool">>
  /\ ret.out.pathsToScan[1].type = "automation-center"
  /\ ret.out.pathsToScan[1].path # ret.out.pathsToScan[1].pathTemplate
  /\ IsFileEntry(ret.out.pathsToScan[2])
  /\ ret.out.pathsToScan[2].key = <<"Tool", "cfg">>
  /\ ret.out.pathsToScan[2].type = "user-config-file"

\* isNetworkPath of a scan-config entry is true
FlaggedNetwork(e) == "isNetworkPath" \in DOMAIN e /\ e.isNetworkPath

\* the path is a server path for classifyPath
ClassifiedServer(p) == p # Undefined /\ classifyPath(p).type = "server"

(* C25: every machine and every tool or macro database of the scan config  *)
(* has isNetworkPath true exactly when its path is a UNC path or starts    *)
(* with a drive letter outside C, D, E, F, as classifyPath decides it.      *)
C25_NetworkPathAsClassified ==
  Generated =>
    /\ "machines" \in DOMAIN ret.out =>
         \A i \in 1..Len(ret.out.machines) :
           FlaggedNetwork(ret.out.machines[i])
             <=> ClassifiedServer(ret.out.machines[i].mdfPath)
    /\ \A i \in 1..Len(ret.out.databases.toolDatabases) :
         FlaggedNetwork(ret.out.databases.toolDatabases[i])
           <=> ClassifiedServer(ret.out.databases.toolDatabases[i].path)
    /\ \A i \in 1..Len(ret.out.databases.macroDatabases) :
         FlaggedNetwork(ret.out.databases.macroDatabases[i])
           <=> ClassifiedServer(ret.out.databases.macroDatabases[i].path)

\* a call that extracted a configuration from a parsed manifest
Extracted == ret.op = "extractConfiguration"

\* every path-like value the configuration holds in its primary collections
PathValues(config) ==
  {config.shared[k].value : k \in DOMAIN config.shared}
  \cup {config.machines[i].mdfPath : i \in 1..Len(config.machines)}
  \cup {config.machines[i].postProcessor : i \in 1..Len(config.machines)}
  \cup {config.tool[i].path : i \in 1..Len(config.tool)}
  \cup {config.macro[i].path : i \in 1..Len(config.macro)}

(* C26: every path-like value found during extraction (registry values,    *)
(* machine definition paths, post-processor paths, tool and macro database *)
(* paths) that is a UNC path or starts with a non-local drive letter is    *)
(* also in networkShares, in addition to its primary collection.           *)
C26_NetworkSharesMirror ==
  Extracted =>
    \A p \in PathValues(ret.out) :
      ClassifiedServer(p)
        => \E i \in 1..Len(ret.out.networkShares) :
             ret.out.networkShares[i].path = p

\* the setting is one the walk knows and it carries what the walk reads
WellFormed(setting) ==
  /\ setting.attrs
  /\ setting.key # Undefined
  /\ setting.element # "Unknown"

\* the registry settings of a manifest that carry the key
ManifestSettingsAt(xmlObj, key) ==
  LET same(s) == s.element = "ConfigRegistry" /\ s.key = key
  IN SelectSeq(xmlObj.settings, same)

\* what a well-formed setting gives is in the configuration
InConfig(setting, config) ==
  CASE setting.element = "ConfigRegistry" ->
         /\ setting.key \in DOMAIN config.shared
         /\ \E s \in Range(ManifestSettingsAt(ret.a1, setting.key)) :
              config.shared[setting.key].value = s.path
    [] setting.element = "ConfigMDF" ->
         \E i \in 1..Len(config.machines) :
           /\ config.machines[i].mdfPath = setting.path
           /\ config.machines[i].postProcessor = setting.postProcessor
    [] setting.element = "ToolDatabase" ->
         \E i \in 1..Len(config.tool) : config.tool[i].path = setting.path
    [] setting.element = "MacroDatabase" ->
         \E i \in 1..Len(config.macro) : config.macro[i].path = setting.path
    [] setting.element = "UserRegistry" ->
         setting.key \in DOMAIN config.userValues
    [] setting.element = "UserDirectory" ->
         \E i \in 1..Len(config.userDirectories) :
           config.userDirectories[i].key = setting.key
    [] setting.element = "UserFile" ->
         \E i \in 1..Len(config.userFiles) :
           config.userFiles[i].key = setting.key

(* C27: parsing fails if and only if the root version element is absent or *)
(* malformed; an unknown or malformed element elsewhere is skipped, the    *)
(* parse succeeds and every well-formed entry, also one that follows the   *)
(* malformed element, is extracted.                                        *)
C27_OnlyRootIsFatal ==
  Extracted =>
    /\ ~ret.success <=> ret.a1.root # "complete"
    /\ ret.success =>
         \A j \in 1..Len(ret.a1.settings) :
           WellFormed(ret.a1.settings[j])
             => InConfig(ret.a1.settings[j], ret.out)

(* C30: when a parse, auto-import or import-file request whose             *)
(* parseSettings returned success is answered, the scratch directory that  *)
(* parseSettings returned has been removed, whatever the later steps did.  *)
C30_ScratchReleasedByRoutes ==
  [][\A i \in CallIds :
       (calls[i].pc = "returned" /\ calls[i].success
        /\ calls'[i].pc = "responded")
         => calls[i].tmpDir \notin DOMAIN scratch']_vars

====
